---- MODULE Spec2Model ----
(***************************************************************************)
(* The two command-line programs of the repository:                        *)
(*   batch/batch.py               upload, poll file, submit batch, poll    *)
(*                                batch, fetch and print the output        *)
(*   data_sources/data_sources.py one chat completion with an Azure AI     *)
(*                                Search data source                       *)
(* Each run is one sequential Python process.  The remote service is the   *)
(* environment: every remote call either raises or returns one of the      *)
(* answers enumerated below.  Python strings whose characters matter are   *)
(* tuples of one-character strings; None is the string "None".             *)
(* time.sleep (batch.py:89,108) only delays and is not modelled.           *)
(* batch.py:106-112 splits f-string replacement fields over two lines,     *)
(* which only Python 3.12 and later parse; the runs modelled are those of  *)
(* such an interpreter.                                                    *)
(***************************************************************************)
EXTENDS Integers, Sequences, FiniteSets, TLC

VARIABLES
    prog,            \* which program this run executes
    pc,              \* position in main()
    exitCode,        \* process exit status (0 unless sys.exit(1) ran)
    exc,             \* the step whose exception was caught, "none" if none
    log,             \* logging.error / stderr records, in order
    stdout,          \* what print() wrote, in order
    calls,           \* remote calls made so far, in order
    token_provider,  \* local of main()
    client,          \* local of main()
    file_id,         \* batch.py local
    status,          \* batch.py local
    batch_id,        \* batch.py local, 0 while unbound
    batch_response,  \* batch.py local
    output_file_id,  \* batch.py local
    file_response    \* batch.py local: text of the fetched file

vars == <<prog, pc, exitCode, exc, log, stdout, calls, token_provider, client,
          file_id, status, batch_id, batch_response, output_file_id,
          file_response>>

(***************************************************************************)
(* Bounds of the model                                                     *)
(***************************************************************************)
MaxFilePolls == 2
MaxBatchPolls == 2
MaxTextLen == 3

(***************************************************************************)
(* Values                                                                  *)
(***************************************************************************)
None == "None"

\* str literals of batch.py, character by character
S_pending == <<"p","e","n","d","i","n","g">>
S_processed == <<"p","r","o","c","e","s","s","e","d">>
S_validating == <<"v","a","l","i","d","a","t","i","n","g">>
S_completed == <<"c","o","m","p","l","e","t","e","d">>
S_failed == <<"f","a","i","l","e","d">>
S_cancelled == <<"c","a","n","c","e","l","l","e","d">>

\* further status strings the service can answer with
S_error == <<"e","r","r","o","r">>
S_process == <<"p","r","o","c","e","s","s">>
S_empty == <<>>
S_in_progress == <<"i","n","_","p","r","o","g","r","e","s","s">>

FileStatuses == {S_pending, S_error, S_processed, S_process, S_empty}
BatchStatuses == {S_validating, S_in_progress, S_completed, S_failed, S_cancelled}
TerminalStatuses == {S_completed, S_failed, S_cancelled}

\* ids the service hands out
UploadedFileId == "file-in"
OutputFileIds == {None, "", "file-out"}
ErrorFileIds == {None, "", "file-err"}

\* batch_response.errors: None, or an object whose .data lists error records
NoErrors == [isNone |-> TRUE, data |-> <<>>]
ErrorsValues ==
    { NoErrors,
      [isNone |-> FALSE, data |-> <<>>],
      [isNone |-> FALSE, data |-> << <<"c","1">> >>] }

\* batch_response before any assignment
NoBatch ==
    [id |-> 0, status |-> S_empty, output_file_id |-> None,
     error_file_id |-> None, errors |-> NoErrors]

\* file text: "a" and "b" each stand for one complete JSON document,
\* "n" for the newline character
TextAlphabet == {"a", "b", "n"}
Whitespace == {"n"}

RECURSIVE SeqsUpTo(_, _)
SeqsUpTo(S, n) ==
    IF n = 0 THEN { <<>> }
    ELSE LET shorter == SeqsUpTo(S, n - 1)
         IN  shorter \cup { Append(s, c) : s \in { t \in shorter : Len(t) = n - 1 }, c \in S }

Texts == SeqsUpTo(TextAlphabet, MaxTextLen)

(***************************************************************************)
(* Python built-ins used by the programs                                   *)
(***************************************************************************)
\* x in s, for two str
StrContains(s, x) ==
    /\ Len(x) <= Len(s)
    /\ \E i \in 0..(Len(s) - Len(x)) : SubSeq(s, i + 1, i + Len(x)) = x

\* bool(x) for an optional str
Truthy(x) == x \notin {None, ""}

\* str.strip()
RECURSIVE LStrip(_)
LStrip(s) ==
    IF s # <<>> /\ Head(s) \in Whitespace THEN LStrip(Tail(s)) ELSE s

RECURSIVE RStrip(_)
RStrip(s) ==
    IF s # <<>> /\ s[Len(s)] \in Whitespace
    THEN RStrip(SubSeq(s, 1, Len(s) - 1)) ELSE s

Strip(s) == RStrip(LStrip(s))

\* str.split('\n'): always at least one piece
RECURSIVE SplitNl(_, _)
SplitNl(s, cur) ==
    IF s = <<>> THEN << cur >>
    ELSE IF Head(s) = "n" THEN << cur >> \o SplitNl(Tail(s), <<>>)
    ELSE SplitNl(Tail(s), Append(cur, Head(s)))

Split(s) == SplitNl(s, <<>>)

\* json.loads(piece) succeeds: exactly one document, whitespace around it allowed
JsonLoadsOk(piece) == Strip(piece) \in { <<"a">>, <<"b">> }

\* the leading pieces that parse, i.e. those printed before the loop ends or raises
RECURSIVE ParsedPrefix(_)
ParsedPrefix(pieces) ==
    IF pieces = <<>> \/ ~JsonLoadsOk(Head(pieces)) THEN <<>>
    ELSE << Strip(Head(pieces)) >> \o ParsedPrefix(Tail(pieces))

(***************************************************************************)
(* Records of the history variables                                        *)
(***************************************************************************)
\* the keyword arguments of chat.completions.create that matter here
NoBody == [max_tokens |-> 0, data_sources |-> <<>>]

\* one remote call: its operation, the file id / batch id / request body it
\* was given, whether it raised, and the status it returned
Call(op, file, batch, body, raised, res) ==
    [op |-> op, file |-> file, batch |-> batch, body |-> body,
     raised |-> raised, res |-> res]

Out(kind, val) == [kind |-> kind, val |-> val]

LogRecord(stream, msg) == [stream |-> stream, msg |-> msg]

CallsOf(op) == { i \in 1..Len(calls) : calls[i].op = op }

batchLocals == <<file_id, status, batch_id, batch_response, output_file_id,
                 file_response>>

(***************************************************************************)
(* Start-up, identical in both programs                                    *)
(***************************************************************************)
Init ==
    /\ prog \in {"batch", "data_sources"}
    /\ pc = "configure_logging"
    /\ exitCode = 0
    /\ exc = "none"
    /\ log = <<>>
    /\ stdout = <<>>
    /\ calls = <<>>
    /\ token_provider = None
    /\ client = None
    /\ file_id = None
    /\ status = S_empty
    /\ batch_id = 0
    /\ batch_response = NoBatch
    /\ output_file_id = None
    /\ file_response = <<>>

\* sys.exit(1)
SysExit1 ==
    /\ pc' = "exited"
    /\ exitCode' = 1

\* configure_logging("ERROR")
ConfigureLogging ==
    /\ pc = "configure_logging"
    /\ \/ /\ pc' = "load_dotenv"
          /\ UNCHANGED <<exitCode, exc, log>>
       \/ /\ log' = Append(log, LogRecord("stderr", "Failed to set up logging: "))
          /\ exc' = "configure_logging"
          /\ SysExit1
    /\ UNCHANGED <<prog, stdout, calls, token_provider, client, batchLocals>>

\* load_dotenv('.env')
LoadDotenv ==
    /\ pc = "load_dotenv"
    /\ \/ /\ pc' = "authenticate"
          /\ UNCHANGED <<exitCode, exc, log>>
       \/ /\ log' = Append(log, LogRecord("logging", "Failed to load environmental variables: "))
          /\ exc' = "load_dotenv"
          /\ SysExit1
    /\ UNCHANGED <<prog, stdout, calls, token_provider, client, batchLocals>>

\* mutation of AuthExcept: the failure is logged but the process goes on
AuthExcept_Swallow ==
    /\ log' = Append(log, LogRecord("logging", "Failed to obtain access token: "))
    /\ exc' = "authenticate"
    /\ pc' = "create_client"
    /\ UNCHANGED exitCode

\* the except clause of authenticate_with_service_principal
AuthExcept ==
    /\ log' = Append(log, LogRecord("logging", "Failed to obtain access token: "))
    /\ exc' = "authenticate"
    /\ SysExit1

\* token_provider = authenticate_with_service_principal(scope=...)
Authenticate ==
    /\ pc = "authenticate"
    /\ \/ /\ token_provider' = "provider"
          /\ pc' = "create_client"
          /\ UNCHANGED <<exitCode, exc, log>>
       \/ /\ AuthExcept
          /\ UNCHANGED token_provider
    /\ UNCHANGED <<prog, stdout, calls, client, batchLocals>>

\* mutation of MainExcept: the handler ends the process with sys.exit(1)
MainExcept_Exit1(step) ==
    /\ log' = Append(log, LogRecord("logging",
                 IF prog = "batch" THEN "Failed batch chat completion: "
                                   ELSE "Failed chat completion: "))
    /\ exc' = step
    /\ SysExit1

\* the except clause of main(): log, then fall off the end of main()
MainExcept(step) ==
    /\ log' = Append(log, LogRecord("logging",
                 IF prog = "batch" THEN "Failed batch chat completion: "
                                   ELSE "Failed chat completion: "))
    /\ exc' = step
    /\ pc' = "exited"
    /\ UNCHANGED exitCode

\* client = AzureOpenAI(...)
CreateClient ==
    /\ pc = "create_client"
    /\ \/ /\ client' = "client"
          /\ pc' = IF prog = "batch" THEN "files_create" ELSE "chat_create"
          /\ UNCHANGED <<exitCode, exc, log>>
       \/ /\ MainExcept("create_client")
          /\ UNCHANGED client
    /\ UNCHANGED <<prog, stdout, calls, token_provider, batchLocals>>

(***************************************************************************)
(* batch.py: upload and the file-status loop                               *)
(***************************************************************************)
\* file = client.files.create(file=open("sample.jsonl", 'rb'), purpose="batch")
\* print(...); file_id = file.id; status = "pending"
FilesCreate ==
    /\ pc = "files_create"
    /\ \/ /\ calls' = Append(calls, Call("files.create", None, 0, NoBody, FALSE, S_empty))
          /\ file_id' = UploadedFileId
          /\ stdout' = Append(stdout, Out("file_json", <<>>))
          /\ status' = S_pending
          /\ pc' = "file_loop"
          /\ UNCHANGED <<exitCode, exc, log>>
       \/ \* open("sample.jsonl") raises: no call is made
          /\ MainExcept("open")
          /\ UNCHANGED <<calls, file_id, stdout, status>>
       \/ /\ calls' = Append(calls, Call("files.create", None, 0, NoBody, TRUE, S_empty))
          /\ MainExcept("files.create")
          /\ UNCHANGED <<file_id, stdout, status>>
    /\ UNCHANGED <<prog, token_provider, client, batch_id, batch_response,
                   output_file_id, file_response>>

\* while status not in ("processed"):   -- ("processed") is a str, not a tuple
FileLoopCond(st) == ~StrContains(S_processed, st)

\* the loop test; on exit, status = "validating" of the next statement
FileLoopTest ==
    /\ pc = "file_loop"
    /\ IF FileLoopCond(status)
       THEN /\ stdout' = Append(stdout, Out("file_status", status))
            /\ pc' = "files_retrieve"
            /\ UNCHANGED status
       ELSE /\ status' = S_validating
            /\ pc' = "batch_loop"
            /\ UNCHANGED stdout
    /\ UNCHANGED <<prog, exitCode, exc, log, calls, token_provider, client,
                   file_id, batch_id, batch_response, output_file_id, file_response>>

\* time.sleep(30); file = client.files.retrieve(file_id); status = file.status; print
FilesRetrieve ==
    /\ pc = "files_retrieve"
    /\ Cardinality(CallsOf("files.retrieve")) < MaxFilePolls
    /\ \/ \E st \in FileStatuses :
            /\ calls' = Append(calls, Call("files.retrieve", file_id, 0, NoBody, FALSE, st))
            /\ status' = st
            /\ stdout' = Append(stdout, Out("file_status", st))
            /\ pc' = "batches_create"
            /\ UNCHANGED <<exitCode, exc, log>>
       \/ /\ calls' = Append(calls, Call("files.retrieve", file_id, 0, NoBody, TRUE, S_empty))
          /\ MainExcept("files.retrieve")
          /\ UNCHANGED <<status, stdout>>
    /\ UNCHANGED <<prog, token_provider, client, file_id, batch_id, batch_response,
                   output_file_id, file_response>>

\* mutation of NewBatchId: the id of the first submission is kept
NewBatchId_KeepFirst(old, response) == IF old # 0 THEN old ELSE response.id

\* batch_id = batch_response.id
NewBatchId(old, response) == response.id

\* batch_response = client.batches.create(input_file_id=file.id, ...)
\* batch_id = batch_response.id; print(...)   -- inside the while body
\* The service numbers the batches it creates 1, 2, ...; file.id is the id
\* files.retrieve was asked for.
BatchesCreate ==
    /\ pc = "batches_create"
    /\ \/ LET response == [id |-> Cardinality(CallsOf("batches.create")) + 1,
                           status |-> S_validating, output_file_id |-> None,
                           error_file_id |-> None, errors |-> NoErrors]
          IN  /\ calls' = Append(calls, Call("batches.create", file_id, response.id,
                                             NoBody, FALSE, S_validating))
              /\ batch_response' = response
              /\ batch_id' = NewBatchId(batch_id, response)
              /\ stdout' = Append(stdout, Out("batch_json", <<>>))
              /\ pc' = "file_loop"
              /\ UNCHANGED <<exitCode, exc, log>>
       \/ /\ calls' = Append(calls, Call("batches.create", file_id, 0, NoBody, TRUE, S_empty))
          /\ MainExcept("batches.create")
          /\ UNCHANGED <<batch_response, batch_id, stdout>>
    /\ UNCHANGED <<prog, token_provider, client, file_id, status, output_file_id,
                   file_response>>

(***************************************************************************)
(* batch.py: the batch-status loop                                         *)
(***************************************************************************)
\* mutation of BatchLoopCond: the loop runs only while "validating"
BatchLoopCond_OnlyValidating(st) == st = S_validating

\* mutation of BatchLoopCond: "failed" does not end the loop
BatchLoopCond_FailedContinues(st) == st \notin {S_completed, S_cancelled}

\* while status not in ("completed", "failed", "cancelled"):
BatchLoopCond(st) == st \notin {S_completed, S_failed, S_cancelled}

BatchLoopTest ==
    /\ pc = "batch_loop"
    /\ IF BatchLoopCond(status)
       THEN /\ stdout' = Append(stdout, Out("batch_status", status))
            /\ pc' = "batches_retrieve"
       ELSE /\ pc' = "select_output"
            /\ UNCHANGED stdout
    /\ UNCHANGED <<prog, exitCode, exc, log, calls, token_provider, client, batchLocals>>

\* what the service may answer to batches.retrieve(id); errors is read by
\* the program only when the status is "failed"
BatchAnswers(id) ==
    { [id |-> id, status |-> st, output_file_id |-> o, error_file_id |-> e, errors |-> er] :
        st \in BatchStatuses, o \in OutputFileIds, e \in ErrorFileIds, er \in ErrorsValues }

RECURSIVE ErrorLines(_)
ErrorLines(data) ==
    IF data = <<>> THEN <<>>
    ELSE << Out("error", Head(data)) >> \o ErrorLines(Tail(data))

\* time.sleep(5); batch_response = client.batches.retrieve(batch_id)
\* status = batch_response.status; print
\* if batch_response.status == "failed": for error in batch_response.errors.data: print
BatchesRetrieve ==
    /\ pc = "batches_retrieve"
    /\ Cardinality(CallsOf("batches.retrieve")) < MaxBatchPolls
    /\ \/ \E r \in BatchAnswers(batch_id) :
            /\ (r.status # S_failed) => (r.errors = NoErrors)
            /\ calls' = Append(calls, Call("batches.retrieve", None, batch_id, NoBody,
                                           FALSE, r.status))
            /\ batch_response' = r
            /\ status' = r.status
            /\ IF r.status = S_failed /\ r.errors.isNone
               THEN \* None.data raises AttributeError
                    /\ stdout' = Append(stdout, Out("batch_status", r.status))
                    /\ MainExcept("errors.data")
               ELSE /\ stdout' = Append(stdout, Out("batch_status", r.status))
                                 \o (IF r.status = S_failed THEN ErrorLines(r.errors.data)
                                                            ELSE <<>>)
                    /\ pc' = "batch_loop"
                    /\ UNCHANGED <<exitCode, exc, log>>
       \/ /\ calls' = Append(calls, Call("batches.retrieve", None, batch_id, NoBody,
                                         TRUE, S_empty))
          /\ MainExcept("batches.retrieve")
          /\ UNCHANGED <<batch_response, status, stdout>>
    /\ UNCHANGED <<prog, token_provider, client, file_id, batch_id, output_file_id,
                   file_response>>

(***************************************************************************)
(* batch.py: fetching and printing the output                              *)
(***************************************************************************)
\* mutation of SelectFile: the error file is preferred
SelectFile_ErrorFirst(response) ==
    IF Truthy(response.error_file_id) THEN response.error_file_id
    ELSE response.output_file_id

\* output_file_id = batch_response.output_file_id
\* if not output_file_id: output_file_id = batch_response.error_file_id
SelectFile(response) ==
    IF ~Truthy(response.output_file_id) THEN response.error_file_id
    ELSE response.output_file_id

\* ... if output_file_id:
SelectOutput ==
    /\ pc = "select_output"
    /\ output_file_id' = SelectFile(batch_response)
    /\ pc' = IF Truthy(output_file_id') THEN "files_content" ELSE "exited"
    /\ UNCHANGED <<prog, exitCode, exc, log, stdout, calls, token_provider, client,
                   file_id, status, batch_id, batch_response, file_response>>

\* file_response = client.files.content(output_file_id)
FilesContent ==
    /\ pc = "files_content"
    /\ \/ \E text \in Texts :
            /\ calls' = Append(calls, Call("files.content", output_file_id, 0, NoBody,
                                           FALSE, S_empty))
            /\ file_response' = text
            /\ pc' = "print_output"
            /\ UNCHANGED <<exitCode, exc, log>>
       \/ /\ calls' = Append(calls, Call("files.content", output_file_id, 0, NoBody,
                                         TRUE, S_empty))
          /\ MainExcept("files.content")
          /\ UNCHANGED file_response
    /\ UNCHANGED <<prog, stdout, token_provider, client, file_id, status, batch_id,
                   batch_response, output_file_id>>

RECURSIVE RecordLines(_)
RecordLines(records) ==
    IF records = <<>> THEN <<>>
    ELSE << Out("record", Head(records)) >> \o RecordLines(Tail(records))

\* raw_responses = file_response.text.strip().split('\n')
\* for raw_response in raw_responses: print(json.dumps(json.loads(raw_response), indent=2))
PrintOutput ==
    /\ pc = "print_output"
    /\ LET raw_responses == Split(Strip(file_response))
           printed == ParsedPrefix(raw_responses)
       IN  /\ stdout' = stdout \o RecordLines(printed)
           /\ IF Len(printed) = Len(raw_responses)
              THEN /\ pc' = "exited"
                   /\ UNCHANGED <<exitCode, exc, log>>
              ELSE MainExcept("json.loads")
    /\ UNCHANGED <<prog, calls, token_provider, client, batchLocals>>

(***************************************************************************)
(* data_sources.py: the augmented chat completion                          *)
(***************************************************************************)
\* mutation of ChatRequest: top_n_documents is 5
ChatRequest_Top5 ==
    [max_tokens |-> 100,
     data_sources |-> << [type |-> "azure_search", in_scope |-> TRUE,
                          query_type |-> "vector_semantic_hybrid",
                          top_n_documents |-> 5, max_search_queries |-> 3,
                          authentication |-> "system_assigned_managed_identity"] >>]

\* max_tokens and extra_body of the request
ChatRequest ==
    [max_tokens |-> 100,
     data_sources |-> << [type |-> "azure_search", in_scope |-> TRUE,
                          query_type |-> "vector_semantic_hybrid",
                          top_n_documents |-> 3, max_search_queries |-> 3,
                          authentication |-> "system_assigned_managed_identity"] >>]

\* response = client.chat.completions.create(...); print(response.choices[0].message.content)
ChatCompletion ==
    /\ pc = "chat_create"
    /\ \/ \E choices \in { <<>>, << <<"a">> >>, << <<"a">>, <<"b">> >> } :
            /\ calls' = Append(calls, Call("chat.completions.create", None, 0,
                                           ChatRequest, FALSE, S_empty))
            /\ IF choices = <<>>
               THEN \* choices[0] raises IndexError
                    /\ MainExcept("choices[0]")
                    /\ UNCHANGED stdout
               ELSE /\ stdout' = Append(stdout, Out("answer", choices[1]))
                    /\ pc' = "exited"
                    /\ UNCHANGED <<exitCode, exc, log>>
       \/ /\ calls' = Append(calls, Call("chat.completions.create", None, 0,
                                         ChatRequest, TRUE, S_empty))
          /\ MainExcept("chat.completions.create")
          /\ UNCHANGED stdout
    /\ UNCHANGED <<prog, token_provider, client, batchLocals>>

(***************************************************************************)
(* The run                                                                 *)
(***************************************************************************)
Next ==
    \/ ConfigureLogging
    \/ LoadDotenv
    \/ Authenticate
    \/ CreateClient
    \/ FilesCreate
    \/ FileLoopTest
    \/ FilesRetrieve
    \/ BatchesCreate
    \/ BatchLoopTest
    \/ BatchesRetrieve
    \/ SelectOutput
    \/ FilesContent
    \/ PrintOutput
    \/ ChatCompletion

Spec == Init /\ [][Next]_vars

(***************************************************************************)
(* Properties                                                              *)
(***************************************************************************)
FilePolls == CallsOf("files.retrieve")
Creates == CallsOf("batches.create")
BatchPolls == CallsOf("batches.retrieve")
Contents == CallsOf("files.content")
Chats == CallsOf("chat.completions.create")

Last(S) == CHOOSE x \in S : \A y \in S : y <= x

Returned(i, statuses) == ~calls[i].raised /\ calls[i].res \in statuses

RecordsPrinted == SelectSeq(stdout, LAMBDA line : line.kind = "record")
ErrorsPrinted == SelectSeq(stdout, LAMBDA line : line.kind = "error")

\* batch.py is at or past the batch-status loop
InBatchPhase ==
    /\ prog = "batch"
    /\ \/ pc \in {"batch_loop", "batches_retrieve", "select_output",
                  "files_content", "print_output"}
       \/ pc = "exited" /\ BatchPolls # {}

\* batch.py is past the statements that choose the file to fetch
AfterSelect ==
    /\ prog = "batch"
    /\ \/ pc \in {"files_content", "print_output"}
       \/ pc = "exited" /\ exc \in {"none", "files.content", "json.loads"}

\* C1: the batch job is submitted exactly once, and never before a
\* files.retrieve poll has returned "processed": at most one batches.create
\* call is ever made, each is preceded by a poll that returned "processed",
\* and exactly one has been made once the batch-status loop is reached.
C1_SubmitOnceAfterProcessed ==
    /\ Cardinality(Creates) <= 1
    /\ \A j \in Creates :
         \E i \in FilePolls : i < j /\ Returned(i, {S_processed})
    /\ InBatchPhase => Cardinality(Creates) = 1

\* C2: once a batches.retrieve poll has returned completed, failed or
\* cancelled, no later batches.retrieve call is made in the run.
C2_NoPollAfterTerminal ==
    \A i \in BatchPolls : \A j \in BatchPolls :
        Returned(i, TerminalStatuses) => j <= i

\* C2 witness: the first poll returned "failed", its error records were
\* printed, the bound would still allow a poll, and the loop has ended.
C2_Witness ==
    /\ pc = "select_output"
    /\ status = S_failed
    /\ Len(ErrorsPrinted) > 0
    /\ Cardinality(BatchPolls) < MaxBatchPolls

\* C3: files.content is called only after some earlier batches.retrieve
\* returned completed, failed or cancelled.
C3_NoContentBeforeTerminal ==
    \A j \in Contents :
        \E i \in BatchPolls : i < j /\ Returned(i, TerminalStatuses)

\* C3 witness: the output was fetched after a non-terminal and a terminal poll.
C3_Witness ==
    /\ pc = "print_output"
    /\ Contents # {}
    /\ \E i \in BatchPolls : Returned(i, {S_in_progress})

\* an id is present when it is neither None nor the empty string
C4_Present(id) == id # None /\ id # ""

\* C4: after the batch-status loop the file fetched comes from the last
\* polled response: the output-file id if present, else the error-file id;
\* with only an error-file id the error file is fetched and its records
\* printed, with both only the output file is fetched, with neither no
\* files.content call is made and no record is printed.
C4_FetchSelection ==
    AfterSelect =>
        LET o == batch_response.output_file_id
            e == batch_response.error_file_id
            p == Last(BatchPolls)
        IN  /\ ~calls[p].raised
            /\ calls[p].res = batch_response.status
            /\ calls[p].batch = batch_response.id
            /\ Cardinality(Contents) <= 1
            /\ C4_Present(o) => \A c \in Contents : calls[c].file = o
            /\ (~C4_Present(o) /\ C4_Present(e)) => \A c \in Contents : calls[c].file = e
            /\ (~C4_Present(o) /\ ~C4_Present(e)) => Contents = {} /\ RecordsPrinted = <<>>
            /\ ((C4_Present(o) \/ C4_Present(e)) /\ pc # "files_content")
                  => Cardinality(Contents) = 1
            /\ (pc = "exited" /\ exc = "none" /\ Contents # {})
                  => [i \in 1..Len(RecordsPrinted) |-> RecordsPrinted[i].val]
                       = Split(Strip(file_response))

\* C4 witness: only an error-file id, the error file fetched, two records printed.
C4_Witness ==
    /\ pc = "exited"
    /\ exc = "none"
    /\ batch_response.output_file_id = None
    /\ batch_response.error_file_id = "file-err"
    /\ \E c \in Contents : calls[c].file = "file-err"
    /\ Len(RecordsPrinted) = 2

\* C5: the file-status loop ends only on a poll that returned exactly
\* "processed": whenever the batch-status loop is reached, the last observed
\* file status equals "processed".
C5_LoopEndsOnlyOnProcessed ==
    (prog = "batch" /\ pc = "batch_loop") =>
        (FilePolls # {} /\ Returned(Last(FilePolls), {S_processed}))

\* the run is past authenticate_with_service_principal without a token provider
C6_AuthRaised ==
    /\ pc \notin {"configure_logging", "load_dotenv", "authenticate"}
    /\ exc \notin {"configure_logging", "load_dotenv"}
    /\ token_provider = None

\* C6: in both programs, when obtaining the token provider raises, the
\* failure is logged as a token-acquisition error, the process exits with
\* code 1, and no remote call is made.
C6_AuthFailureExits ==
    C6_AuthRaised =>
        /\ pc = "exited"
        /\ exitCode = 1
        /\ log = << LogRecord("logging", "Failed to obtain access token: ") >>
        /\ calls = <<>>
        /\ ~ENABLED Next

\* C6 witness: authentication raised and the run has ended.
C6_Witness ==
    /\ C6_AuthRaised
    /\ pc = "exited"
    /\ exc = "authenticate"

PostAuthSteps ==
    {"create_client", "open", "files.create", "files.retrieve", "batches.create",
     "batches.retrieve", "errors.data", "files.content", "json.loads",
     "chat.completions.create", "choices[0]"}

\* C7: in both programs an exception of any step after authentication is
\* caught by the top-level handler: it is logged, no further remote call is
\* made (a call that raised is the last call, and the run has ended), and
\* the exit code is 0.
C7_CaughtExitsZero ==
    /\ exc \in PostAuthSteps =>
         /\ pc = "exited"
         /\ exitCode = 0
         /\ log = << LogRecord("logging",
                       IF prog = "batch" THEN "Failed batch chat completion: "
                                         ELSE "Failed chat completion: ") >>
         /\ ~ENABLED Next
    /\ \A i \in 1..Len(calls) :
         calls[i].raised => (i = Len(calls) /\ exc = calls[i].op)

\* C7 witness: a batch-status poll raised in the middle of the sequence.
C7_Witness ==
    /\ exc = "batches.retrieve"
    /\ pc = "exited"
    /\ Cardinality(BatchPolls) = 2

C8_RequestOk(i) ==
    LET ds == calls[i].body.data_sources
    IN  /\ Len(ds) = 1
        /\ ds[1].query_type = "vector_semantic_hybrid"
        /\ ds[1].top_n_documents = 3

\* C8 as stated: every run of data_sources.py that passes authentication
\* sends the chat-completion request exactly once, with one data source of
\* query type vector_semantic_hybrid and document limit 3.
C8_Original ==
    (prog = "data_sources" /\ pc = "exited" /\ token_provider # None) =>
        /\ Cardinality(Chats) = 1
        /\ \A i \in Chats : C8_RequestOk(i)

\* C8 (amended): data_sources.py sends the chat-completion request at most
\* once; a run that passes authentication and constructs the client sends
\* it exactly once; every request sent carries exactly one data source, of
\* query type vector_semantic_hybrid and document limit 3.
C8_SentOnceWithDataSource ==
    prog = "data_sources" =>
        /\ Cardinality(Chats) <= 1
        /\ (pc = "exited" /\ client # None) => Cardinality(Chats) = 1
        /\ \A i \in Chats : C8_RequestOk(i)

\* C8 witness: the request was sent and answered, and the run has ended.
C8_Witness ==
    /\ prog = "data_sources"
    /\ pc = "exited"
    /\ exc = "none"
    /\ Chats # {}
    /\ Len(stdout) = 1

\* C9: without a poll that returned "processed" and a later poll that
\* returned completed, failed or cancelled, the driver never reaches the
\* output fetch.
C9_NoFetchWithoutProcessed ==
    (prog = "batch" /\ pc = "select_output") =>
        /\ \E i \in FilePolls : Returned(i, {S_processed})
        /\ \E i \in BatchPolls : Returned(i, TerminalStatuses)

====
